---- MODULE Spec2Model ----
(***************************************************************************)
(* A model of pymoldflow's decoders and projector:                         *)
(*   - PatranMesh (data_io.py): read, init_mesh, remove_free_points        *)
(*   - read_moldflow_xml (data_io.py)                                      *)
(*   - convert_to_time_series_xdmf (data_io.py)                            *)
(*   - MoldflowResultsExporter (studyrlt.py): the field projection         *)
(*                                                                         *)
(* Python values are modelled as follows.                                  *)
(*   dict        a sequence of <<key, value>> pairs in insertion order     *)
(*   list/array  a sequence; numpy indices are 0-based, so the element at  *)
(*               numpy index i is the (i+1)-th of the sequence             *)
(*   exception   the name of the exception class in a field/variable exc,  *)
(*               "" when nothing was raised                                *)
(*   float       a record Num(v) or NaN                                    *)
(***************************************************************************)
EXTENDS Integers, Sequences, FiniteSets, TLC

VARIABLES
    \* PatranMesh(patfile, read_celltypes)
    patfile,          \* the records the regular expressions find in the file
    read_celltypes,   \* the requested cell kinds
    mesh_pc,          \* "new" -> "read" -> "done", or "raised_in_<method>"
    mesh,             \* the PatranMesh object under construction
    mesh_exc          \* the exception that left the constructor, "" if none

mesh_vars == <<patfile, read_celltypes, mesh_pc, mesh, mesh_exc>>

VARIABLES
    \* read_moldflow_xml(fxml, only_last_step)
    fxml,             \* the XML document of the file
    only_last_step,   \* the flag of the call
    xml_pc,           \* "new" -> "returned" or "raised"
    xml_ret           \* what the call returned: (success, data), or the exception

xml_vars == <<fxml, only_last_step, xml_pc, xml_ret>>

VARIABLES
    \* convert_to_time_series_xdmf(fxdmf)
    func_all,         \* the Name of every Attribute of the file, in document order
    xdmf_pc,          \* "new" -> "written"
    xdmf_out          \* the temporal collection appended to the Domain

xdmf_vars == <<func_all, xdmf_pc, xdmf_out>>

VARIABLES
    \* MoldflowResultsExporter; the study's mesh file is patfile and the XML
    \* file that studyrlt writes for the result is fxml
    self_mesh,        \* self.mesh: NoMesh (None) or the processed mesh
    outfile,          \* self.outfile is not None
    rawdata,          \* the files present in the rawdata directory
    call,             \* the last call and its arguments
    ret               \* what the last call returned, or the exception

exp_vars == <<self_mesh, outfile, rawdata, call, ret>>

VARIABLES
    \* average_cell_to_point and average_point_to_cell on the PatranMesh
    avg_call,         \* the last averaging call and its argument
    avg_ret           \* the array it returned, or the exception

avg_vars == <<avg_call, avg_ret>>

vars == <<mesh_vars, xml_vars, xdmf_vars, exp_vars, avg_vars>>

----------------------------------------------------------------------------
(* Bounds of the model *)

MaxPointRecs == 5     \* point records in a mesh file
MaxCellRecs == 2      \* cell records in a mesh file
MaxBlocks == 2        \* blocks in an XML result file
MaxAttrs == 3         \* Attribute elements in an XDMF file

----------------------------------------------------------------------------
(* Python helpers *)

Min(a, b) == IF a < b THEN a ELSE b

\* d[k] = v on a dict: an existing key keeps its insertion position
DictPut(d, k, v) ==
    IF \E i \in 1..Len(d) : d[i][1] = k
    THEN [i \in 1..Len(d) |-> IF d[i][1] = k THEN <<k, v>> ELSE d[i]]
    ELSE Append(d, <<k, v>>)

DictHas(d, k) == \E i \in 1..Len(d) : d[i][1] = k

DictGet(d, k) == d[CHOOSE i \in 1..Len(d) : d[i][1] = k][2]

DictKeys(d) == [i \in 1..Len(d) |-> d[i][1]]

\* the elements of s at the positions not in drop, in order
RECURSIVE SeqDelete(_, _)
SeqDelete(s, drop) ==
    IF s = <<>> THEN <<>>
    ELSE LET n == Len(s)
             rest == SeqDelete(SubSeq(s, 1, n - 1), drop)
         IN IF n \in drop THEN rest ELSE Append(rest, s[n])

RECURSIVE Flatten(_)
Flatten(ss) == IF ss = <<>> THEN <<>> ELSE Head(ss) \o Flatten(Tail(ss))

\* int(text): a token is the text of a field; text with a letter in it
\* (the patterns of read() admit "E") is no integer literal
IsIntLiteral(tok) == ~tok.hasE
IntOf(tok) == tok.digits

----------------------------------------------------------------------------
(* PatranMesh.read *)

meshio_to_patran_type ==
    [line |-> 2, triangle |-> 3, quad |-> 4, tetra |-> 5, hexahedron |-> 8]

\* patran_to_meshio_type: the codes of the requested kinds
RequestedCodes(celltypes) == {meshio_to_patran_type[c] : c \in celltypes}

MeshioTypeOf(code) ==
    CHOOSE c \in DOMAIN meshio_to_patran_type : meshio_to_patran_type[c] = code

\* lines 57-63: pointsID[int(id)] = i for the i-th point record
RECURSIVE read_pointsID(_, _)
read_pointsID(pointlines, n) ==
    IF n = 0 THEN <<>>
    ELSE DictPut(read_pointsID(pointlines, n - 1), pointlines[n].id, n - 1)

read_points(pointlines) == [i \in 1..Len(pointlines) |-> pointlines[i].xyz]

\* get_cell: the first num_points ids of the connectivity line, each looked up
\* in pointsID (KeyError for an id that no point record defines)
get_cell_ids(conn, num_points) == SubSeq(conn, 1, Min(num_points, Len(conn)))

get_cell_raises(conn, num_points, pointsID) ==
    \E j \in 1..Len(get_cell_ids(conn, num_points)) : ~DictHas(pointsID, conn[j])

get_cell(conn, num_points, pointsID) ==
    [j \in 1..Len(get_cell_ids(conn, num_points)) |-> DictGet(pointsID, conn[j])]

\* lines 69-82, one cell record after the other; acc = [exc, cells, cellsID]
RECURSIVE read_cells(_, _, _, _, _)
read_cells(celllines, i, codes, pointsID, acc) ==
    IF i > Len(celllines) \/ acc.exc # "" THEN acc
    ELSE LET e == celllines[i] IN
        IF ~IsIntLiteral(e.typ) \/ ~IsIntLiteral(e.n)
        THEN [acc EXCEPT !.exc = "ValueError"]
        ELSE IF IntOf(e.typ) \notin codes
        THEN read_cells(celllines, i + 1, codes, pointsID, acc)
        ELSE IF ~IsIntLiteral(e.cid)
        THEN [acc EXCEPT !.exc = "ValueError"]
        ELSE IF get_cell_raises(e.conn, IntOf(e.n), pointsID)
        THEN [acc EXCEPT !.exc = "KeyError"]
        ELSE LET kind == MeshioTypeOf(IntOf(e.typ))
                 cell == get_cell(e.conn, IntOf(e.n), pointsID)
                 old == IF DictHas(acc.cells, kind)
                        THEN DictGet(acc.cells, kind) ELSE <<>>
                 oldID == IF DictHas(acc.cellsID, kind)
                          THEN DictGet(acc.cellsID, kind) ELSE <<>>
             IN read_cells(celllines, i + 1, codes, pointsID,
                    [acc EXCEPT !.cells = DictPut(@, kind, Append(old, cell)),
                                !.cellsID = DictPut(@, kind,
                                                Append(oldID, IntOf(e.cid)))])

\* lines 84-86: np.array(rows, dtype=int) needs rows of one length
Ragged(rows) == \E a, b \in 1..Len(rows) : Len(rows[a]) # Len(rows[b])

\* PatranMesh.read: the object's fields, or the exception
read(file, celltypes) ==
    LET pointsID == read_pointsID(file.points, Len(file.points))
        got == read_cells(file.cells, 1, RequestedCodes(celltypes), pointsID,
                          [exc |-> "", cells |-> <<>>, cellsID |-> <<>>])
        exc == IF got.exc # "" THEN got.exc
               ELSE IF \E k \in 1..Len(got.cells) : Ragged(got.cells[k][2])
               THEN "ValueError" ELSE ""
    IN [exc |-> exc,
        points |-> read_points(file.points),
        pointsID |-> pointsID,
        cells |-> got.cells,
        cellsID |-> got.cellsID,
        point_data |-> <<>>,
        ncells |-> 0,
        npoints |-> 0]

----------------------------------------------------------------------------
(* PatranMesh.remove_free_points and init_mesh *)

\* np.concatenate of the kinds' arrays: the row lengths must agree
ConcatRaises(cells) ==
    \/ cells = <<>>
    \/ \E a, b \in 1..Len(cells) :
          /\ cells[a][2] # <<>> /\ cells[b][2] # <<>>
          /\ Len(cells[a][2][1]) # Len(cells[b][2][1])

all_cells_flat(cells) == Flatten([k \in 1..Len(cells) |-> Flatten(cells[k][2])])

SeqRange(s) == {s[i] : i \in 1..Len(s)}

\* np.setdiff1d(np.arange(len(points)), all_cells_flat)
free_points(m) ==
    {i \in 0..(Len(m.points) - 1) : i \notin SeqRange(all_cells_flat(m.cells))}

\* a shift by one whatever the number of free points below the index
ShiftIndexByOne(v, free) == IF \E f \in free : v > f THEN v - 1 ELSE v

\* lines 136-139: diff counts the free points below the index
ShiftIndex(v, free) == v - Cardinality({f \in free : v > f})

\* the connectivities left as they were
ShiftCellsUnshifted(cells, free) == cells

\* lines 140-145: the flat array cut back into the kinds' shapes
ShiftCells(cells, free) ==
    [k \in 1..Len(cells) |->
        <<cells[k][1],
          [r \in 1..Len(cells[k][2]) |->
              [c \in 1..Len(cells[k][2][r]) |->
                  ShiftIndex(cells[k][2][r][c], free)]]>>]

\* lines 148-151: np.delete on the dict's keys at the free points' indices
\* (an index past the end of the keys is an IndexError)
PointsIDRaises(m, free) == \E f \in free : f >= Len(m.pointsID)

RebuildPointsID(pointsID, free) ==
    LET keys == SeqDelete(DictKeys(pointsID), {f + 1 : f \in free})
    IN [i \in 1..Len(keys) |-> <<keys[i], i - 1>>]

remove_free_points(m) ==
    IF ConcatRaises(m.cells) THEN [m EXCEPT !.exc = "ValueError"]
    ELSE LET free == free_points(m) IN
        IF free = {} THEN m
        ELSE IF PointsIDRaises(m, free)
        THEN [m EXCEPT !.exc = "IndexError",
                       !.points = SeqDelete(@, {f + 1 : f \in free}),
                       !.cells = ShiftCells(@, free)]
        ELSE [m EXCEPT !.points = SeqDelete(@, {f + 1 : f \in free}),
                       !.cells = ShiftCells(@, free),
                       !.pointsID = RebuildPointsID(@, free)]

RECURSIVE SumLens(_)
SumLens(cells) ==
    IF cells = <<>> THEN 0 ELSE Len(Head(cells)[2]) + SumLens(Tail(cells))

\* init_mesh: ncells_cumsum[-1] of an empty cumsum is an IndexError
init_mesh(m) ==
    IF m.cells = <<>> THEN [m EXCEPT !.exc = "IndexError"]
    ELSE LET r == remove_free_points([m EXCEPT !.ncells = SumLens(m.cells)])
         IN IF r.exc # "" THEN r ELSE [r EXCEPT !.npoints = Len(r.points)]

----------------------------------------------------------------------------
(* The mesh files of the model *)

Tok(n) == [digits |-> n, hasE |-> FALSE]
BadTok(n) == [digits |-> n, hasE |-> TRUE]

PointIds == 1..5

\* a point record: its external id and its coordinate line (the coordinates
\* are named by the record's place in the file)
PointRec(id, place) == [id |-> id, xyz |-> 10 * place + id]

\* point records in ascending order of id, at most one id given twice
AscendingIds(n) ==
    {s \in [1..n -> PointIds] :
        /\ \A i \in 1..(n - 1) : s[i] <= s[i + 1]
        /\ Cardinality({i \in 1..(n - 1) : s[i] = s[i + 1]}) <= 1}

PointFiles ==
    UNION {{[i \in 1..n |-> PointRec(ids[i], i)] : ids \in AscendingIds(n)} :
           n \in 0..MaxPointRecs}

CellShapes ==
    {[typ |-> Tok(3), n |-> Tok(3), conn |-> <<1, 2, 3>>],
     [typ |-> Tok(3), n |-> Tok(3), conn |-> <<2, 3, 4>>],
     [typ |-> Tok(3), n |-> Tok(3), conn |-> <<3, 4, 5>>],
     [typ |-> Tok(3), n |-> Tok(3), conn |-> <<1, 2, 3, 4>>],
     [typ |-> Tok(5), n |-> Tok(4), conn |-> <<1, 2, 3, 4>>],
     [typ |-> Tok(5), n |-> Tok(4), conn |-> <<1, 2, 3>>],
     [typ |-> BadTok(3), n |-> Tok(3), conn |-> <<1, 2, 3>>]}

CellRec(shape, place) ==
    [cid |-> Tok(100 + place), typ |-> shape.typ, n |-> shape.n,
     conn |-> shape.conn]

CellFiles ==
    UNION {{[i \in 1..n |-> CellRec(shapes[i], i)] :
              shapes \in [1..n -> CellShapes]} : n \in 0..MaxCellRecs}

CellTypeChoices == {{"triangle", "tetra"}, {"triangle"}, {"tetra"}}

NoMesh == [exc |-> "unset"]

----------------------------------------------------------------------------
(* Construction of a PatranMesh, step by step *)

MeshStart ==
    /\ patfile \in [points : PointFiles, cells : CellFiles]
    /\ read_celltypes \in CellTypeChoices
    /\ mesh_pc = "new"
    /\ mesh = NoMesh
    /\ mesh_exc = ""

\* __init__, line 15: self.read(patfile, read_celltypes)
PatranMesh_read ==
    /\ mesh_pc = "new"
    /\ LET m == read(patfile, read_celltypes) IN
        /\ mesh' = m
        /\ mesh_exc' = m.exc
        /\ mesh_pc' = IF m.exc = "" THEN "read" ELSE "raised_in_read"
    /\ UNCHANGED <<patfile, read_celltypes, xml_vars, xdmf_vars, exp_vars,
                   avg_vars>>

\* __init__, line 16: self.init_mesh()
PatranMesh_init_mesh ==
    /\ mesh_pc = "read"
    /\ LET m == init_mesh(mesh) IN
        /\ mesh' = m
        /\ mesh_exc' = m.exc
        /\ mesh_pc' = IF m.exc = "" THEN "done" ELSE "raised_in_init_mesh"
    /\ UNCHANGED <<patfile, read_celltypes, xml_vars, xdmf_vars, exp_vars,
                   avg_vars>>

----------------------------------------------------------------------------
(* read_moldflow_xml *)

\* Result values are counted in units of 1e28, so that the threshold 1e29 of
\* line 248 is 10 units
SentinelLimit == 10

Num(v) == [nan |-> FALSE, v |-> v]
NaN == [nan |-> TRUE, v |-> 0]

NDDT == "NDDT(Node data)"
ELDT == "ELDT(Element data)"
NMDT == "NMDT(Non-mesh data)"

\* np.fromstring(text, sep=" ", count=dim): the first dim numbers of the text
fromstring(text, count) == [j \in 1..Min(count, Len(text)) |-> Num(text[j])]

\* array[array > 1e29] = np.nan
MaskValue(x) == IF ~x.nan /\ x.v > SentinelLimit THEN NaN ELSE x
mask_sentinel(array) == [j \in 1..Len(array) |-> MaskValue(array[j])]

\* a one-component array is stored as the bare number
unwrap(array) == IF Len(array) = 1 THEN array[1] ELSE array

\* lines 242-252: the id -> value dict of one Data element
RECURSIVE read_id_val(_, _, _)
read_id_val(dataset, n, dim) ==
    IF n = 0 THEN <<>>
    ELSE DictPut(read_id_val(dataset, n - 1, dim), dataset[n].ID,
                 unwrap(mask_sentinel(fromstring(dataset[n].text, dim))))

\* lines 261-265: the array of one DeptValues element of a non-mesh record
read_nmdt_val(text, dim) == unwrap(fromstring(text, dim))

\* lines 235-238: the Value attribute two siblings before the dataset; a
\* lookup that fails structurally gives nan
read_time(block) == IF block.time.present THEN Num(block.time.v) ELSE NaN

XmlRaise(e) ==
    [status |-> "raise", exc |-> e, type |-> "", dim |-> 0,
     time_is_none |-> TRUE, time |-> <<>>, val |-> <<>>]

\* return False, None
XmlFailure ==
    [status |-> "fail", exc |-> "", type |-> "", dim |-> 0,
     time_is_none |-> TRUE, time |-> <<>>, val |-> <<>>]

\* the first block kept in place of the last
select_datasets_first(doc, last_only) ==
    IF doc.type # NMDT /\ last_only THEN <<doc.blocks[1]>> ELSE doc.blocks

\* lines 211-216: the datasets that are read
select_datasets(doc, last_only) ==
    IF doc.type # NMDT /\ last_only
    THEN <<doc.blocks[Len(doc.blocks)]>>
    ELSE doc.blocks

\* a single step taken for a time series
time_is_none_strict(doc, nsteps, last_only) ==
    doc.type # NMDT /\ (nsteps < 1 \/ last_only)

\* lines 219-222: data["time"] is None
time_is_none(doc, nsteps, last_only) ==
    doc.type # NMDT /\ (nsteps <= 1 \/ last_only)

\* lines 224-265: data["val"].  With a time axis a mesh-kind record holds one
\* id -> value dict per step; without, the dict of the (last) dataset read.
read_val(doc, datasets, no_time) ==
    IF doc.type # NMDT
    THEN IF no_time
         THEN IF datasets = <<>> THEN <<>>
              ELSE read_id_val(datasets[Len(datasets)].data,
                               Len(datasets[Len(datasets)].data), doc.dim)
         ELSE [i \in 1..Len(datasets) |->
                  read_id_val(datasets[i].data, Len(datasets[i].data), doc.dim)]
    ELSE [i \in 1..Len(datasets) |-> read_nmdt_val(datasets[i].data, doc.dim)]

read_moldflow_xml(doc, last_only) ==
    IF ~doc.parses THEN XmlFailure
    ELSE IF doc.nroot < 2 THEN XmlRaise("IndexError")
    ELSE IF doc.meta = "no Name" THEN XmlRaise("KeyError")
    ELSE IF doc.meta = "no DataType" THEN XmlRaise("AttributeError")
    ELSE IF doc.type # NMDT /\ last_only /\ doc.blocks = <<>>
    THEN XmlRaise("IndexError")
    ELSE LET datasets == select_datasets(doc, last_only)
             nsteps == Len(datasets)
             no_time == time_is_none(doc, nsteps, last_only)
         IN [status |-> "ok", exc |-> "", type |-> doc.type, dim |-> doc.dim,
             time_is_none |-> no_time,
             time |-> IF no_time THEN <<>>
                      ELSE [i \in 1..nsteps |-> read_time(datasets[i])],
             val |-> read_val(doc, datasets, no_time)]

----------------------------------------------------------------------------
(* The XML documents of the model *)

TimeAttr(t) == [present |-> TRUE, v |-> t]
NoTimeAttr == [present |-> FALSE, v |-> 0]

\* the component texts of a value element: below, at and above the
\* threshold, on both sides of zero
RawTexts(dim) ==
    IF dim = 1 THEN {<<3>>, <<10>>, <<11>>, <<-11>>}
    ELSE {<<3, 4>>, <<11, 10>>, <<4, -11>>}

Entry(id, text) == [ID |-> id, text |-> text]

PlainText(dim) == [j \in 1..dim |-> j + 2]

\* another text, its last component above the threshold when there are several
OtherText(dim) == [j \in 1..dim |-> IF j = dim /\ dim > 1 THEN 11 ELSE j + 3]

\* the value elements of one Data element: none, one, or two (of two
\* entities, or twice the same)
EntryLists(ids, dim) ==
    {<<>>}
    \cup {<<Entry(id, t)>> : id \in ids, t \in RawTexts(dim)}
    \cup {<<Entry(a, t), Entry(b, PlainText(dim))>> :
            a \in ids, b \in {x \in ids : \A y \in ids : x >= y},
            t \in RawTexts(dim)}

\* the Blocks/Block lists of n blocks, each one of the choices
BlockLists(n, choices) == [1..n -> choices]

GoodDoc(type, dim, blocks) ==
    [parses |-> TRUE, nroot |-> 2, meta |-> "ok", type |-> type, dim |-> dim,
     blocks |-> blocks]

BrokenDocs ==
    {[GoodDoc(NDDT, 1, <<>>) EXCEPT !.parses = FALSE],
     [GoodDoc(NDDT, 1, <<>>) EXCEPT !.nroot = 1],
     [GoodDoc(NDDT, 1, <<>>) EXCEPT !.nroot = 0],
     [GoodDoc(NDDT, 1, <<>>) EXCEPT !.meta = "no Name"],
     [GoodDoc(ELDT, 1, <<>>) EXCEPT !.meta = "no DataType"]}

Dims == {1, 2}

XmlTimes == {NoTimeAttr, TimeAttr(20)}

XmlIds == {1, 2}

NoDoc == GoodDoc("", 0, <<>>)

----------------------------------------------------------------------------
(* One call of read_moldflow_xml *)

XmlStart ==
    /\ \/ fxml \in BrokenDocs
       \/ \E type \in {NDDT, ELDT}, dim \in Dims, n \in 0..MaxBlocks :
             \E b \in BlockLists(n, [time : XmlTimes,
                                     data : EntryLists(XmlIds, dim)]) :
                 fxml = GoodDoc(type, dim, b)
       \/ \E dim \in Dims, n \in 0..MaxBlocks :
             \E b \in BlockLists(n, [time : XmlTimes, data : RawTexts(dim)]) :
                 fxml = GoodDoc(NMDT, dim, b)
    /\ only_last_step \in BOOLEAN
    /\ xml_pc = "new"
    /\ xml_ret = XmlFailure

call_read_moldflow_xml ==
    /\ xml_pc = "new"
    /\ xml_ret' = read_moldflow_xml(fxml, only_last_step)
    /\ xml_pc' = IF xml_ret'.status = "raise" THEN "raised" ELSE "returned"
    /\ UNCHANGED <<fxml, only_last_step, mesh_vars, xdmf_vars, exp_vars,
                   avg_vars>>

----------------------------------------------------------------------------
(* convert_to_time_series_xdmf *)

\* An attribute name is "<function>" or "<function>__<time>".  The time text
\* is what f"{t:.4f}" writes: "nan", or a sign and the digits, counted in
\* units of 0.0001 ("-0.0000" and "0.0000" are two texts of one number).
NoSuffix == [has |-> FALSE, nan |-> FALSE, neg |-> FALSE, mag |-> 0]
TimeText(neg, mag) == [has |-> TRUE, nan |-> FALSE, neg |-> neg, mag |-> mag]
NanText == [has |-> TRUE, nan |-> TRUE, neg |-> FALSE, mag |-> 0]

AttrName(func, sfx) == [func |-> func, sfx |-> sfx]

\* float(text)
float(text) == IF text.nan THEN NaN ELSE Num(IF text.neg THEN -text.mag ELSE text.mag)

\* x < y on floats: false when either is nan
FloatLess(x, y) == ~x.nan /\ ~y.nan /\ x.v < y.v

\* list.index(x): the first position of x (0-based)
ListIndex(list, x) == (CHOOSE i \in 1..Len(list) :
                          list[i] = x /\ \A j \in 1..(i - 1) : list[j] # x) - 1

InList(list, x) == \E i \in 1..Len(list) : list[i] = x

\* the function name of every attribute, repeated as often as it appears
func_set_repeated(names) == [i \in 1..Len(names) |-> names[i].func]

\* lines 300-304: the function names, each once, in order of first appearance
RECURSIVE func_set(_)
func_set(names) ==
    IF names = <<>> THEN <<>>
    ELSE LET n == Len(names)
             before == func_set(SubSeq(names, 1, n - 1))
         IN IF InList(before, names[n].func) THEN before
            ELSE Append(before, names[n].func)

\* line 307: the time texts of all names
AllTimeTexts(names) == {names[i].sfx : i \in {j \in 1..Len(names) : names[j].sfx.has}}

\* line 308: sorted(list(set(timestep)), key=float).  The order in which a
\* set of strings is listed is not fixed, so texts of equal value may come
\* in either order.
RECURSIVE SortedLists(_)
SortedLists(S) ==
    IF S = {} THEN {<<>>}
    ELSE UNION {{<<x>> \o rest : rest \in SortedLists(S \ {x})} :
                  x \in {y \in S : \A z \in S : ~FloatLess(float(z), float(y))}}

\* lines 311-316: the time texts of one function, in document order
_f_timestep(names, func) ==
    LET Mine(n) == n.func = func /\ n.sfx.has
        mine == SelectSeq(names, Mine)
    IN [i \in 1..Len(mine) |-> mine[i].sfx]

\* max(list, key=float): the first element of the greatest value
MaxByFloat(list) ==
    list[CHOOSE i \in 1..Len(list) :
            /\ \A j \in 1..Len(list) : ~FloatLess(float(list[i]), float(list[j]))
            /\ \A j \in 1..(i - 1) : FloatLess(float(list[j]), float(list[i]))]

\* lines 330-337: the time text whose fragment is taken for time t
select_time(f_ts, t) ==
    IF InList(f_ts, t) THEN t
    ELSE LET Below(x) == FloatLess(float(x), float(t))
             f_t_ll_t == SelectSeq(f_ts, Below)
         IN IF Len(f_t_ll_t) > 0 THEN MaxByFloat(f_t_ll_t) ELSE f_ts[1]

\* lines 319-341: the copied element, renamed to the bare function name; ind
\* is the place in the document of the element copied
_func_at(names, func, t) ==
    LET f_ts == _f_timestep(names, func) IN
    IF Len(f_ts) = 0
    THEN [Name |-> func, ind |-> ListIndex(names, AttrName(func, NoSuffix))]
    ELSE [Name |-> func,
          ind |-> ListIndex(names, AttrName(func, select_time(f_ts, t)))]

\* lines 344-358: the grid of one time
_time_series_grid(names, t) ==
    LET fs == func_set(names)
    IN [Time |-> t, Geometry |-> 1, Topology |-> 1,
        Attributes |-> [k \in 1..Len(fs) |-> _func_at(names, fs[k], t)]]

\* lines 361-369: the temporal collection for the sorted times
time_series(names, timestep) ==
    [k \in 1..Len(timestep) |-> _time_series_grid(names, timestep[k])]

----------------------------------------------------------------------------
(* The XDMF files of the model *)

TimeTexts == {TimeText(neg, mag) : neg \in BOOLEAN, mag \in 0..2}

AttrNames == {AttrName(f, x) : f \in {"F", "G"}, x \in TimeTexts \cup {NoSuffix}}

\* a function appears either with time suffixes or without, as the exporter
\* writes it
XdmfFiles ==
    UNION {{names \in [1..n -> AttrNames] :
               \A i, j \in 1..n :
                   names[i].func = names[j].func => names[i].sfx.has = names[j].sfx.has} :
           n \in 0..MaxAttrs}

----------------------------------------------------------------------------
(* One call of convert_to_time_series_xdmf *)

XdmfStart ==
    /\ func_all \in XdmfFiles
    /\ xdmf_pc = "new"
    /\ xdmf_out = <<>>

call_convert_to_time_series_xdmf ==
    /\ xdmf_pc = "new"
    /\ \E timestep \in SortedLists(AllTimeTexts(func_all)) :
          xdmf_out' = time_series(func_all, timestep)
    /\ xdmf_pc' = "written"
    /\ UNCHANGED <<func_all, mesh_vars, xml_vars, exp_vars, avg_vars>>

----------------------------------------------------------------------------
(* MoldflowResultsExporter: export_mesh *)

\* PatranMesh(mesh, read_celltypes=["triangle", "tetra"])
PatranMesh(file, celltypes) ==
    LET m == read(file, celltypes) IN IF m.exc # "" THEN m ELSE init_mesh(m)

\* PatranMesh.scale: the coordinates times the factor
scale(m, factor) ==
    [m EXCEPT !.points = [i \in 1..Len(m.points) |-> m.points[i] * factor]]

\* export_mesh, lines 105-116: one cell kind is kept, tetra before triangle;
\* cellsID becomes the dict from external cell id to row
keep_one_cell_type(m) ==
    LET cell_type == IF DictHas(m.cells, "tetra") THEN "tetra" ELSE "triangle"
        ids == DictGet(m.cellsID, cell_type)
    IN [points |-> m.points,
        pointsID |-> m.pointsID,
        cell_type |-> cell_type,
        cells |-> <<<<cell_type, DictGet(m.cells, cell_type)>>>>,
        cellsID |-> [i \in 1..Len(ids) |-> <<ids[i], i - 1>>],
        point_data |-> <<>>,
        cell_data |-> <<>>,
        ncells |-> m.ncells,
        npoints |-> m.npoints,
        exc |-> ""]

----------------------------------------------------------------------------
(* MoldflowResultsExporter: the projection of a record on the mesh *)

\* Times are counted in units of 0.00001, so that the four decimals that
\* f"{t:.4f}" keeps (studyrlt.py, line 391) are units of 10
TimeScale == 10

\* f"{t:.4f}"
FormatTime(t) ==
    IF t.nan THEN NanText
    ELSE TimeText(t.v < 0,
                  ((IF t.v < 0 THEN -t.v ELSE t.v) + TimeScale \div 2) \div TimeScale)

\* line 391: name_step
name_step(name, timestep) ==
    [i \in 1..Len(timestep) |-> AttrName(name, FormatTime(timestep[i]))]

\* _prepare_data_structure: the id map and an array of nan
locate_of(m, data) == IF data.type = NDDT THEN m.pointsID ELSE m.cellsID

nan_values(m, data) ==
    LET num == IF data.type = NDDT THEN Len(m.points)
               ELSE Len(DictGet(m.cells, m.cell_type))
    IN [i \in 1..num |-> IF data.dim = 1 THEN NaN ELSE [c \in 1..data.dim |-> NaN]]

\* the values written in the order of the record, whatever entity they name
fill_values_in_order(values, locate, id_val, n) ==
    [p \in 1..Len(values) |-> IF p <= n THEN id_val[p][2] ELSE values[p]]

\* lines 356-360 and 401-405: values[locate[identifier]] = value, a failed
\* lookup is passed over
RECURSIVE fill_values(_, _, _, _)
fill_values(values, locate, id_val, n) ==
    IF n = 0 THEN values
    ELSE LET sofar == fill_values(values, locate, id_val, n - 1)
             identifier == id_val[n][1]
         IN IF DictHas(locate, identifier)
               /\ DictGet(locate, identifier) < Len(values)
            THEN [sofar EXCEPT ![DictGet(locate, identifier) + 1] = id_val[n][2]]
            ELSE sofar

\* the components left in the order of the file
reorder_tensor_none(values, dim) == values

\* lines 362-364 and 407-409: values[:, [0, 1, 2, 3, 5, 4]]
reorder_tensor(values, dim) ==
    IF dim = 6
    THEN [i \in 1..Len(values) |->
             <<values[i][1], values[i][2], values[i][3], values[i][4],
               values[i][6], values[i][5]>>]
    ELSE values

project(m, data, id_val) ==
    reorder_tensor(fill_values(nan_values(m, data), locate_of(m, data),
                               id_val, Len(id_val)), data.dim)

\* lines 367-371 and 412-416: the field stored under the name
set_field(m, data, field_name, values) ==
    IF data.type = NDDT
    THEN [m EXCEPT !.point_data = DictPut(@, field_name, values)]
    ELSE [m EXCEPT !.cell_data = DictPut(@, field_name, values)]

\* _process_single_result: the mesh afterwards and the array
_process_single_result(m, data, name, has_outfile) ==
    LET values == project(m, data, data.val)
    IN [mesh |-> IF has_outfile
                 THEN set_field(m, data, AttrName(name, NoSuffix), values)
                 ELSE m,
        array |-> values]

\* the array itself handed back in place of a copy
np_copy_same(objs, src) == [objs |-> objs, id |-> src]

\* line 400, np.copy(values_): a new array with the contents of the old one.
\* objs lists the arrays of the call, an array's place in it is its identity.
np_copy(objs, src) == [objs |-> Append(objs, objs[src]), id |-> Len(objs) + 1]

\* lines 395-409: the loop over the steps.  Array 1 is values_; each step
\* fills its copy in place, and the reordering of a 6-component array makes
\* one more array; ids[i] is the array that step i stores.
RECURSIVE _time_series_steps(_, _, _)
_time_series_steps(m, data, nsteps) ==
    IF nsteps = 0 THEN [objs |-> <<nan_values(m, data)>>, ids |-> <<>>]
    ELSE LET before == _time_series_steps(m, data, nsteps - 1)
             c == np_copy(before.objs, 1)
             filled == fill_values(c.objs[c.id], locate_of(m, data),
                                   data.val[nsteps], Len(data.val[nsteps]))
             written == [c.objs EXCEPT ![c.id] = filled]
         IN IF data.dim = 6
            THEN [objs |-> Append(written, reorder_tensor(filled, data.dim)),
                  ids |-> Append(before.ids, Len(written) + 1)]
            ELSE [objs |-> written, ids |-> Append(before.ids, c.id)]

\* _process_time_series_result, lines 411-416: one field per step, stored
\* under the step's name; the fields hold what the arrays hold in the end
RECURSIVE _process_time_series_result(_, _, _, _, _)
_process_time_series_result(m, data, name, has_outfile, nsteps) ==
    IF nsteps = 0 THEN m
    ELSE LET before == _process_time_series_result(m, data, name, has_outfile,
                                                   nsteps - 1)
             run == _time_series_steps(m, data, Len(data.time))
         IN IF has_outfile
            THEN set_field(before, data, name_step(name, data.time)[nsteps],
                           run.objs[run.ids[nsteps]])
            ELSE before

----------------------------------------------------------------------------
(* The exporter's calls *)

\* success returned whatever the outcome
ReturnsSuccess(code) == [code |-> 1, pair |-> FALSE, array |-> <<>>, exc |-> ""]

Returns(code) == [code |-> code, pair |-> FALSE, array |-> <<>>, exc |-> ""]
ReturnsPair(code, array) == [code |-> code, pair |-> TRUE, array |-> array, exc |-> ""]
Raises(e) == [code |-> 0, pair |-> FALSE, array |-> <<>>, exc |-> e]
NoArray == <<>>

MeshCall(raw) ==
    [op |-> "export_mesh", only_last_step |-> FALSE,
     only_export_rawdata |-> raw, return_array |-> FALSE]

ResultCall(last, raw, arr) ==
    [op |-> "export_result", only_last_step |-> last,
     only_export_rawdata |-> raw, return_array |-> arr]

\* export_mesh(output_formats, only_export_rawdata): studyrlt is run when the
\* Patran file is not there yet, and may fail
export_mesh ==
    \E only_export_rawdata \in BOOLEAN, studyrlt_ok \in BOOLEAN :
        /\ ("mesh.pat" \in rawdata) => studyrlt_ok
        /\ call' = MeshCall(only_export_rawdata)
        /\ IF ~studyrlt_ok
           THEN /\ ret' = Returns(0)
                /\ UNCHANGED <<self_mesh, rawdata>>
           ELSE /\ rawdata' = rawdata \cup {"mesh.pat"}
                /\ IF only_export_rawdata
                   THEN ret' = Returns(1) /\ UNCHANGED self_mesh
                   ELSE LET m == PatranMesh(patfile, {"triangle", "tetra"}) IN
                        IF m.exc # ""
                        THEN ret' = Raises(m.exc) /\ UNCHANGED self_mesh
                        ELSE /\ self_mesh' = keep_one_cell_type(scale(m, 1000))
                             /\ ret' = Returns(1)
        /\ UNCHANGED <<outfile, mesh_vars, xml_vars, xdmf_vars, avg_vars>>

\* export_result, lines 182-195: the record is projected, then returned
process_result(data, name, return_array) ==
    IF data.type = NMDT
    THEN [mesh |-> self_mesh,
          ret |-> IF return_array THEN ReturnsPair(1, <<data.time, data.val>>)
                  ELSE Returns(1)]
    ELSE IF self_mesh = NoMesh
    THEN [mesh |-> self_mesh, ret |-> Raises("AttributeError")]
    ELSE IF data.time_is_none
    THEN LET done == _process_single_result(self_mesh, data, name, outfile)
         IN [mesh |-> done.mesh,
             ret |-> IF return_array THEN ReturnsPair(1, done.array)
                     ELSE Returns(1)]
    ELSE [mesh |-> _process_time_series_result(self_mesh, data, name, outfile,
                                               Len(data.time)),
          ret |-> IF return_array THEN Raises("UnboundLocalError")
                  ELSE Returns(1)]

\* export_result(resultID, name, only_last_step, export_npy,
\* only_export_rawdata, return_array) for the result named "F"
export_result ==
    \E last \in BOOLEAN, only_export_rawdata \in BOOLEAN,
       return_array \in BOOLEAN, studyrlt_ok \in BOOLEAN :
        /\ ("F.xml" \in rawdata) => studyrlt_ok
        /\ call' = ResultCall(last, only_export_rawdata, return_array)
        /\ IF ~studyrlt_ok
           THEN /\ ret' = IF return_array THEN ReturnsPair(-1, NoArray)
                          ELSE Returns(-1)
                /\ UNCHANGED <<self_mesh, rawdata>>
           ELSE /\ rawdata' = rawdata \cup {"F.xml"}
                /\ IF only_export_rawdata
                   THEN ret' = Returns(1) /\ UNCHANGED self_mesh
                   ELSE LET data == read_moldflow_xml(fxml, last) IN
                        IF data.status = "raise"
                        THEN ret' = Raises(data.exc) /\ UNCHANGED self_mesh
                        ELSE IF data.status = "fail"
                        THEN /\ ret' = IF return_array
                                       THEN ReturnsPair(-2, NoArray)
                                       ELSE Returns(-2)
                             /\ UNCHANGED self_mesh
                        ELSE LET done == process_result(data, "F", return_array)
                             IN self_mesh' = done.mesh /\ ret' = done.ret
        /\ UNCHANGED <<outfile, mesh_vars, xml_vars, xdmf_vars, avg_vars>>

----------------------------------------------------------------------------
(* The studies of the exporter's model *)

ExportMeshFiles ==
    {[points |-> [i \in 1..5 |-> PointRec(i, i)],
      cells |-> <<CellRec([typ |-> Tok(5), n |-> Tok(4), conn |-> <<2, 3, 4, 5>>], 1)>>],
     [points |-> [i \in 1..4 |-> PointRec(i, i)],
      cells |-> <<CellRec([typ |-> Tok(3), n |-> Tok(3), conn |-> <<1, 2, 3>>], 1),
                  CellRec([typ |-> Tok(3), n |-> Tok(3), conn |-> <<2, 3, 4>>], 2)>>]}

\* the steps of a mesh-kind result: the value of one entity, or those of an
\* entity that no mesh has and of another one; with a time that is missing,
\* 0.00001 or 0.00004
ExportSteps(known, other, dim) ==
    LET one == <<Entry(known, PlainText(dim))>>
        two == <<Entry(9, PlainText(dim)), Entry(other, OtherText(dim))>>
    IN {[time |-> NoTimeAttr, data |-> one], [time |-> TimeAttr(1), data |-> one],
        [time |-> NoTimeAttr, data |-> two], [time |-> TimeAttr(4), data |-> two]}

\* two steps of different times (0.0001 and 0.0002)
DistinctSteps(known, other, dim) ==
    {[time |-> TimeAttr(10), data |-> <<Entry(known, PlainText(dim))>>],
     [time |-> TimeAttr(20),
      data |-> <<Entry(9, PlainText(dim)), Entry(other, OtherText(dim))>>]}

ExportTimes == {NoTimeAttr, TimeAttr(1)}

NoCall == [op |-> "", only_last_step |-> FALSE, only_export_rawdata |-> FALSE,
           return_array |-> FALSE]

ExportStart ==
    /\ patfile \in ExportMeshFiles
    /\ read_celltypes = {"triangle", "tetra"}
    /\ mesh_pc = "idle" /\ mesh = NoMesh /\ mesh_exc = ""
    /\ \/ fxml = [GoodDoc(NDDT, 1, <<>>) EXCEPT !.parses = FALSE]
       \/ \E n \in 0..MaxBlocks :
             \/ \E b \in BlockLists(n, ExportSteps(1, 3, 1)) :
                   fxml = GoodDoc(NDDT, 1, b)
             \/ \E b \in BlockLists(n, DistinctSteps(1, 3, 2)) :
                   fxml = GoodDoc(NDDT, 2, b)
             \/ \E b \in BlockLists(n, DistinctSteps(101, 102, 1)) :
                   fxml = GoodDoc(ELDT, 1, b)
             \/ \E b \in BlockLists(n, DistinctSteps(2, 3, 6)) :
                   fxml = GoodDoc(NDDT, 6, b)
             \/ \E b \in BlockLists(n, [time : ExportTimes, data : {<<3>>}]) :
                   fxml = GoodDoc(NMDT, 1, b)
    /\ only_last_step = FALSE /\ xml_pc = "idle" /\ xml_ret = XmlFailure
    /\ self_mesh = NoMesh
    /\ outfile \in BOOLEAN
    /\ rawdata = {}
    /\ call = NoCall
    /\ ret = Returns(0)

----------------------------------------------------------------------------
(* PatranMesh.average_cell_to_point and average_point_to_cell *)

\* Every value of the data is a multiple of 12, so that the division by a
\* number of cells or of points (1 to 4) is exact
DataUnit == 12

AvgReturns(array) == [exc |-> "", array |-> array]
AvgRaises(e) == [exc |-> e, array |-> <<>>]
NoAvgCall == [op |-> "", ndim |-> 0, data |-> <<>>]

\* x / n on floats: 0 / 0 is nan
Divide(x, n) == IF n = 0 THEN NaN ELSE Num(x \div n)

\* the sum of f[i] for the i of a set of indices
RECURSIVE SumOver(_, _)
SumOver(f, S) ==
    IF S = {} THEN 0
    ELSE LET i == CHOOSE x \in S : TRUE IN f[i] + SumOver(f, S \ {i})

\* column c of a 2-dimensional array, the array itself when it has 1 dimension
Column(data, ndim, c) ==
    IF ndim = 1 THEN data ELSE [i \in 1..Len(data) |-> data[i][c]]

Width(data, ndim) == IF ndim = 1 \/ data = <<>> THEN 1 ELSE Len(data[1])

\* lines 163-166: the tetra cells (1-based rows) that a point belongs to
cells_of_point(rows, p) == {i \in 1..Len(rows) : p \in SeqRange(rows[i])}

\* line 168: point_data /= ncells_per_point[:, None].  The divisor has the
\* shape (npoints, 1); an array of shape (npoints,) cannot take the result
\* of shape (npoints, npoints)
divide_in_place(sums, counts, ndim) ==
    IF ndim = 1 THEN AvgRaises("ValueError")
    ELSE AvgReturns([p \in 1..Len(sums) |->
                        [c \in 1..Len(sums[p]) |-> Divide(sums[p][c], counts[p])]])

\* average_cell_to_point(tetra_data)
average_cell_to_point(m, tetra_data, ndim) ==
    IF ~DictHas(m.cells, "tetra") THEN AvgRaises("KeyError")
    ELSE LET rows == DictGet(m.cells, "tetra")
             sums == [p \in 1..m.npoints |->
                        [c \in 1..Width(tetra_data, ndim) |->
                            SumOver(Column(tetra_data, ndim, c),
                                    cells_of_point(rows, p - 1))]]
             counts == [p \in 1..m.npoints |->
                          Cardinality(cells_of_point(rows, p - 1))]
         IN divide_in_place(sums, counts, ndim)

\* the number of rows of the tetra array
ntetra(m) == Len(DictGet(m.cells, "tetra"))

\* np.mean(point_data[cell], axis=0)
mean_of_cell(point_data, ndim, cell) ==
    LET at(c) == SumOver(Column(point_data, ndim, c), {v + 1 : v \in SeqRange(cell)})
    IN IF ndim = 1 THEN Divide(at(1), Len(cell))
       ELSE [c \in 1..Width(point_data, ndim) |-> Divide(at(c), Len(cell))]

\* np.zeros(n) or np.zeros((n, k))
zeros_row(point_data, ndim) ==
    IF ndim = 1 THEN Num(0) ELSE [c \in 1..Width(point_data, ndim) |-> Num(0)]

\* average_point_to_cell(point_data): the array has self.ncells rows, the
\* rows of the tetra cells are filled
average_point_to_cell(m, point_data, ndim) ==
    IF ~DictHas(m.cells, "tetra") THEN AvgRaises("KeyError")
    ELSE LET rows == DictGet(m.cells, "tetra") IN
         AvgReturns([i \in 1..m.ncells |->
                        IF i <= Len(rows)
                        THEN mean_of_cell(point_data, ndim, rows[i])
                        ELSE zeros_row(point_data, ndim)])

\* the arrays given to the two operations: entity i has the value
\* 12 * scale * i, and in 2 dimensions a second column 12 more
DataScales == {1, 2}

AvgData(n, ndim, a) ==
    IF ndim = 1 THEN [i \in 1..n |-> DataUnit * a * i]
    ELSE [i \in 1..n |-> <<DataUnit * a * i, DataUnit * a * i + DataUnit>>]

call_average_cell_to_point ==
    /\ mesh_pc = "done"
    /\ \E ndim \in {1, 2}, a \in DataScales :
          LET n == IF DictHas(mesh.cells, "tetra") THEN ntetra(mesh) ELSE 1
              tetra_data == AvgData(n, ndim, a)
          IN /\ avg_call' = [op |-> "average_cell_to_point", ndim |-> ndim,
                             data |-> tetra_data]
             /\ avg_ret' = average_cell_to_point(mesh, tetra_data, ndim)
    /\ UNCHANGED <<mesh_vars, xml_vars, xdmf_vars, exp_vars>>

call_average_point_to_cell ==
    /\ mesh_pc = "done"
    /\ \E ndim \in {1, 2}, a \in DataScales :
          LET point_data == AvgData(mesh.npoints, ndim, a)
          IN /\ avg_call' = [op |-> "average_point_to_cell", ndim |-> ndim,
                             data |-> point_data]
             /\ avg_ret' = average_point_to_cell(mesh, point_data, ndim)
    /\ UNCHANGED <<mesh_vars, xml_vars, xdmf_vars, exp_vars>>

----------------------------------------------------------------------------
(* The idle values of the parts a specification leaves out *)

MeshIdle ==
    /\ patfile = [points |-> <<>>, cells |-> <<>>]
    /\ read_celltypes = {}
    /\ mesh_pc = "idle"
    /\ mesh = NoMesh
    /\ mesh_exc = ""

XmlIdle ==
    /\ fxml = NoDoc
    /\ only_last_step = FALSE
    /\ xml_pc = "idle"
    /\ xml_ret = XmlFailure

XdmfIdle ==
    /\ func_all = <<>>
    /\ xdmf_pc = "idle"
    /\ xdmf_out = <<>>

ExportIdle ==
    /\ self_mesh = NoMesh
    /\ outfile = FALSE
    /\ rawdata = {}
    /\ call = NoCall
    /\ ret = Returns(0)

AverageIdle ==
    /\ avg_call = NoAvgCall
    /\ avg_ret = AvgReturns(<<>>)

----------------------------------------------------------------------------
(* Specifications *)

Init == MeshStart /\ XmlIdle /\ XdmfIdle /\ ExportIdle /\ AverageIdle
Next == PatranMesh_read \/ PatranMesh_init_mesh
Spec == Init /\ [][Next]_vars

XmlInit == MeshIdle /\ XmlStart /\ XdmfIdle /\ ExportIdle /\ AverageIdle
XmlNext == call_read_moldflow_xml
SpecXml == XmlInit /\ [][XmlNext]_vars

XdmfInit == MeshIdle /\ XmlIdle /\ XdmfStart /\ ExportIdle /\ AverageIdle
XdmfNext == call_convert_to_time_series_xdmf
SpecXdmf == XdmfInit /\ [][XdmfNext]_vars

ExportMeshInit ==
    /\ patfile \in [points : PointFiles, cells : CellFiles]
    /\ read_celltypes = {"triangle", "tetra"}
    /\ mesh_pc = "idle" /\ mesh = NoMesh /\ mesh_exc = ""
    /\ XmlIdle /\ XdmfIdle /\ ExportIdle /\ AverageIdle
ExportMeshNext == export_mesh
SpecExportMesh == ExportMeshInit /\ [][ExportMeshNext]_vars

ExportInit == ExportStart /\ XdmfIdle /\ AverageIdle
ExportNext == export_mesh \/ export_result
SpecExport == ExportInit /\ [][ExportNext]_vars

AverageInit == MeshStart /\ XmlIdle /\ XdmfIdle /\ ExportIdle /\ AverageIdle
AverageNext ==
    \/ PatranMesh_read
    \/ PatranMesh_init_mesh
    \/ call_average_cell_to_point
    \/ call_average_point_to_cell
SpecAverage == AverageInit /\ [][AverageNext]_vars

----------------------------------------------------------------------------
(* Claims about PatranMesh (specification Spec) *)

PointIdsGiven(file) == {file.points[i].id : i \in 1..Len(file.points)}

\* the patran arity of a type code: 3 nodes for a triangle, 4 for a tetra
WellFormedCell(file, e) ==
    /\ IsIntLiteral(e.typ) /\ IsIntLiteral(e.n) /\ IsIntLiteral(e.cid)
    /\ IntOf(e.n) = Len(e.conn)
    /\ IntOf(e.n) = (IF IntOf(e.typ) = 3 THEN 3 ELSE 4)
    /\ SeqRange(e.conn) \subseteq PointIdsGiven(file)

Requested(e) == IsIntLiteral(e.typ) /\ IntOf(e.typ) \in RequestedCodes(read_celltypes)

ValidMeshFile(file) ==
    /\ file.points # <<>>
    /\ Cardinality(PointIdsGiven(file)) = Len(file.points)
    /\ \A i \in 1..Len(file.cells) : WellFormedCell(file, file.cells[i])
    /\ \E i \in 1..Len(file.cells) : Requested(file.cells[i])

CellIndices == SeqRange(all_cells_flat(mesh.cells))

\* C1: in every mesh that the constructor produces, every vertex index of
\* every cell is in [0, len(points)) and every index in [0, len(points))
\* occurs in some cell.
C1_IndicesInRangeNoFreePoint ==
    mesh_pc = "done" =>
        /\ \A v \in CellIndices : v \in 0..(Len(mesh.points) - 1)
        /\ \A i \in 0..(Len(mesh.points) - 1) : i \in CellIndices

\* a valid file with two free points below the cell's points was decoded
C1_Witness ==
    /\ mesh_pc = "done"
    /\ ValidMeshFile(patfile)
    /\ Len(patfile.points) - Len(mesh.points) >= 2
    /\ mesh.points # <<>>

NoPointRecord == patfile.points = <<>>

NoRequestedCellRecord == \A i \in 1..Len(patfile.cells) : ~Requested(patfile.cells[i])

\* C2: a file without any point record, or without any cell record of a
\* requested kind, never makes the constructor end with an exception.
C2_NoRecordIsNoFault ==
    (NoPointRecord \/ NoRequestedCellRecord) =>
        mesh_pc \notin {"raised_in_read", "raised_in_init_mesh"}

DecodedCellIDs ==
    SeqRange(Flatten([k \in 1..Len(mesh.cellsID) |-> mesh.cellsID[k][2]]))

\* C10: read never ends with an exception, whatever record is malformed, and
\* every well-formed cell record of a requested kind is decoded.
C10_MalformedRecordSkipped ==
    (mesh_pc # "new" /\ patfile.points # <<>>) =>
        /\ mesh_pc # "raised_in_read"
        /\ \A i \in 1..Len(patfile.cells) :
              (WellFormedCell(patfile, patfile.cells[i]) /\ Requested(patfile.cells[i]))
                  => IntOf(patfile.cells[i].cid) \in DecodedCellIDs

----------------------------------------------------------------------------
(* Claims about read_moldflow_xml (specification SpecXml) *)

Abs(n) == IF n < 0 THEN -n ELSE n

Components(x, dim) == IF dim = 1 THEN {x} ELSE SeqRange(x)

DictValues(d) == {d[i][2] : i \in 1..Len(d)}

\* every number stored in data["val"]
StoredValues(data) ==
    LET items == IF data.type = NMDT THEN SeqRange(data.val)
                 ELSE IF data.time_is_none THEN DictValues(data.val)
                 ELSE UNION {DictValues(data.val[i]) : i \in 1..Len(data.val)}
    IN UNION {Components(x, data.dim) : x \in items}

Returned == xml_pc = "returned" /\ xml_ret.status = "ok"

\* C3: read_moldflow_xml never raises.
C3_NeverRaises == xml_pc # "raised"

\* C5: no number stored in the returned record has a magnitude above 1e29.
C5_SentinelNeverFinite ==
    Returned => \A x \in StoredValues(xml_ret) : x.nan \/ Abs(x.v) <= SentinelLimit

MeshKind == fxml.type # NMDT

\* the last group of the same file read with only_last_step=False
LastGroupOfFullRead ==
    LET full == read_moldflow_xml(fxml, FALSE) IN full.val[Len(full.val)]

\* C6 as claimed: for a record of any kind with more than one block,
\* only_last_step=True gives no time axis and the last group of the full read.
C6_LastStepAnyKind ==
    (Returned /\ only_last_step /\ Len(fxml.blocks) > 1) =>
        /\ xml_ret.time_is_none
        /\ xml_ret.val = LastGroupOfFullRead

\* C6 as amended: the same for mesh-kind records (NodeData, ElementData).
C6_LastStepMeshKind ==
    (Returned /\ only_last_step /\ Len(fxml.blocks) > 1 /\ MeshKind) =>
        /\ xml_ret.time_is_none
        /\ xml_ret.val = LastGroupOfFullRead

\* a mesh-kind record of two different blocks was read with only_last_step
C6_Witness ==
    /\ Returned /\ only_last_step /\ MeshKind
    /\ Len(fxml.blocks) = 2
    /\ fxml.blocks[1].data # fxml.blocks[2].data
    /\ xml_ret.val # <<>>

\* C7 as claimed: a time axis exactly when there is more than one block and
\* only_last_step was not requested, whatever the kind.
C7_TimeAxisAnyKind ==
    Returned =>
        (~xml_ret.time_is_none <=> (Len(fxml.blocks) > 1 /\ ~only_last_step))

\* C7 as amended: that equivalence for mesh-kind records; a non-mesh record
\* always has a time axis, of one entry per block.
C7_TimeAxisMeshKind ==
    Returned =>
        IF MeshKind
        THEN ~xml_ret.time_is_none <=> (Len(fxml.blocks) > 1 /\ ~only_last_step)
        ELSE ~xml_ret.time_is_none /\ Len(xml_ret.time) = Len(fxml.blocks)

\* a mesh-kind record of one block was read in full and has no time axis
C7_Witness ==
    /\ Returned /\ MeshKind /\ ~only_last_step
    /\ Len(fxml.blocks) = 1
    /\ xml_ret.time_is_none

----------------------------------------------------------------------------
(* Claims about convert_to_time_series_xdmf (specification SpecXdmf) *)

\* the number a time text stands for, in units of 0.0001
ValueOf(text) == IF text.neg THEN -text.mag ELSE text.mag

TextsOf(func) ==
    {func_all[i].sfx : i \in {j \in 1..Len(func_all) :
                                 func_all[j].func = func /\ func_all[j].sfx.has}}

\* the selection rule for a function with time texts S, a time t and the
\* text sel of the fragment taken
SelectionRule(S, t, sel) ==
    IF t \in S THEN sel = t
    ELSE LET below == {x \in S : ValueOf(x) < ValueOf(t)} IN
         IF below # {}
         THEN sel \in below /\ \A x \in below : ValueOf(x) <= ValueOf(sel)
         ELSE sel \in S /\ \A x \in S : ValueOf(sel) <= ValueOf(x)

\* C4: in every group, for every function with time suffixes, the fragment
\* taken is the one of the group's time, else the one of the greatest time
\* below it, else the one of the smallest time of the function.
C4_SelectionRule ==
    xdmf_pc = "written" =>
        \A k \in 1..Len(xdmf_out) :
            \A a \in 1..Len(xdmf_out[k].Attributes) :
                LET at == xdmf_out[k].Attributes[a] IN
                TextsOf(at.Name) # {} =>
                    SelectionRule(TextsOf(at.Name), xdmf_out[k].Time,
                                  func_all[at.ind + 1].sfx)

TimeValues == {ValueOf(x) : x \in AllTimeTexts(func_all)}

\* C9: one group per distinct time value, in strictly ascending order of time.
C9_OneGroupPerTimeAscending ==
    xdmf_pc = "written" =>
        /\ Len(xdmf_out) = Cardinality(TimeValues)
        /\ {ValueOf(xdmf_out[k].Time) : k \in 1..Len(xdmf_out)} = TimeValues
        /\ \A k \in 1..(Len(xdmf_out) - 1) :
              ValueOf(xdmf_out[k].Time) < ValueOf(xdmf_out[k + 1].Time)

----------------------------------------------------------------------------
(* Claims about the exporter (specification SpecExport) *)

\* the last call was export_result on a time-varying mesh-kind record, with
\* an output file, and it went through _process_time_series_result
TimeSeriesProjected ==
    /\ call.op = "export_result"
    /\ ~call.only_last_step /\ ~call.only_export_rawdata
    /\ fxml.parses /\ fxml.type # NMDT /\ Len(fxml.blocks) > 1
    /\ outfile
    /\ \/ ret.exc = "" /\ ret.code = 1
       \/ ret.exc = "UnboundLocalError"

FieldsOf(m) == IF fxml.type = NDDT THEN m.point_data ELSE m.cell_data

StepFieldNames(m) ==
    {FieldsOf(m)[k][1] : k \in {j \in 1..Len(FieldsOf(m)) : FieldsOf(m)[j][1].sfx.has}}

\* C8: the n steps of the record give n fields of pairwise distinct names,
\* the i-th named by the result name and the i-th time value.
C8_OneFieldPerStep ==
    TimeSeriesProjected =>
        LET n == Len(fxml.blocks)
            named(i) == AttrName("F", FormatTime(read_time(fxml.blocks[i])))
        IN /\ \A i, j \in 1..n : i # j => named(i) # named(j)
           /\ \A i \in 1..n : named(i) \in StepFieldNames(self_mesh)
           /\ Cardinality(StepFieldNames(self_mesh)) = n

----------------------------------------------------------------------------
(* Claims about remove_free_points (specification Spec) *)

\* the external ids of the point records whose coordinates are still a row
SurvivingIds ==
    {patfile.points[i].id :
        i \in {j \in 1..Len(patfile.points) :
                  patfile.points[j].xyz \in SeqRange(mesh.points)}}

\* the coordinates that the file gives for an external id
GivenFor(e) ==
    {patfile.points[i].xyz :
        i \in {j \in 1..Len(patfile.points) : patfile.points[j].id = e}}

DuplicateId == Cardinality(PointIdsGiven(patfile)) < Len(patfile.points)

\* C11: after remove_free_points, pointsID maps exactly the external ids of
\* the surviving points one-to-one onto [0, len(points)), and the row of each
\* id holds the coordinates the file gave for it; also when an id is given by
\* two point records.
C11_PointsIDBijection ==
    mesh_pc = "done" =>
        /\ SeqRange(DictKeys(mesh.pointsID)) = SurvivingIds
        /\ {mesh.pointsID[k][2] : k \in 1..Len(mesh.pointsID)}
               = 0..(Len(mesh.points) - 1)
        /\ Len(mesh.pointsID) = Len(mesh.points)
        /\ \A k \in 1..Len(mesh.pointsID) :
              mesh.points[mesh.pointsID[k][2] + 1] \in GivenFor(mesh.pointsID[k][1])

\* the same for files in which every point record has an id of its own
C11_PointsIDBijectionDistinctIds ==
    (mesh_pc = "done" /\ ~DuplicateId) =>
        /\ SeqRange(DictKeys(mesh.pointsID)) = SurvivingIds
        /\ {mesh.pointsID[k][2] : k \in 1..Len(mesh.pointsID)}
               = 0..(Len(mesh.points) - 1)
        /\ Len(mesh.pointsID) = Len(mesh.points)
        /\ \A k \in 1..Len(mesh.pointsID) :
              mesh.points[mesh.pointsID[k][2] + 1] \in GivenFor(mesh.pointsID[k][1])

\* the rows that no cell of the mesh refers to
Unreferenced(m) ==
    {i \in 0..(Len(m.points) - 1) : i \notin SeqRange(all_cells_flat(m.cells))}

SameShape(before, after) ==
    /\ Len(before) = Len(after)
    /\ \A k \in 1..Len(before) :
          /\ before[k][1] = after[k][1]
          /\ Len(before[k][2]) = Len(after[k][2])
          /\ \A r \in 1..Len(before[k][2]) :
                Len(before[k][2][r]) = Len(after[k][2][r])

\* C12: remove_free_points rewrites every vertex index v to v minus the
\* number of removed points below v, keeps each kind's shape and cell order,
\* and every cell refers to the same coordinates after the removal as before.
C12_ShiftKeepsCoordinates ==
    [][(mesh_pc = "read" /\ mesh_pc' = "done") =>
          /\ SameShape(mesh.cells, mesh'.cells)
          /\ \A k \in 1..Len(mesh.cells) :
                \A r \in 1..Len(mesh.cells[k][2]) :
                   \A c \in 1..Len(mesh.cells[k][2][r]) :
                      LET v == mesh.cells[k][2][r][c]
                          w == mesh'.cells[k][2][r][c]
                      IN /\ w = v - Cardinality({f \in Unreferenced(mesh) : f < v})
                         /\ mesh'.points[w + 1] = mesh.points[v + 1]]_vars

\* points were removed and the indices of one cell were shifted by different
\* amounts (a removed point lies between two of its points)
C12_Witness ==
    /\ mesh_pc = "done"
    /\ LET before == read(patfile, read_celltypes).cells IN
          \E k \in 1..Len(mesh.cells) :
             \E r \in 1..Len(mesh.cells[k][2]) :
                \E a, b \in 1..Len(mesh.cells[k][2][r]) :
                   /\ before[k][2][r][a] = mesh.cells[k][2][r][a]
                   /\ before[k][2][r][b] > mesh.cells[k][2][r][b]

----------------------------------------------------------------------------
(* Claims about export_mesh (specification SpecExportMesh) *)

\* the last call was export_mesh, and it read and processed the Patran file
MeshProcessed ==
    /\ call.op = "export_mesh" /\ ~call.only_export_rawdata
    /\ ret = Returns(1)

TetraDecoded == DictHas(read(patfile, {"triangle", "tetra"}).cells, "tetra")

RetainedIndices == SeqRange(all_cells_flat(self_mesh.cells))

\* C13: the mesh that export_mesh has processed holds one cell kind, tetra if
\* a tetra cell was decoded and triangle otherwise, and every point of it is
\* referenced by a cell of that kind.
C13_OneKindNoFreePoint ==
    MeshProcessed =>
        /\ Len(self_mesh.cells) = 1
        /\ self_mesh.cells[1][1] = (IF TetraDecoded THEN "tetra" ELSE "triangle")
        /\ \A i \in 0..(Len(self_mesh.points) - 1) : i \in RetainedIndices

----------------------------------------------------------------------------
(* Claims about the projection of a record (specification SpecExport) *)

\* the record that the last export_result call decoded
Decoded == read_moldflow_xml(fxml, call.only_last_step)

\* the last call was export_result with return_array on a mesh-kind record
\* without time axis, and it returned the array of _process_single_result
SingleProjected ==
    /\ call.op = "export_result"
    /\ ~call.only_export_rawdata /\ call.return_array
    /\ ret.exc = "" /\ ret.pair /\ ret.code = 1
    /\ fxml.type \in {NDDT, ELDT}
    /\ Decoded.time_is_none

Locate == IF fxml.type = NDDT THEN self_mesh.pointsID ELSE self_mesh.cellsID

NumEntities ==
    IF fxml.type = NDDT THEN Len(self_mesh.points)
    ELSE Len(self_mesh.cells[1][2])

NotAvailable(dim) == IF dim = 1 THEN NaN ELSE [c \in 1..dim |-> NaN]

\* the components in the order in which the field stores them
Canonical(value, dim) ==
    IF dim = 6
    THEN <<value[1], value[2], value[3], value[4], value[6], value[5]>>
    ELSE value

\* the positions of the entities for which the id -> value dict has a value
Positions(id_val) ==
    {DictGet(Locate, e) + 1 :
        e \in SeqRange(DictKeys(id_val)) \cap SeqRange(DictKeys(Locate))}

\* the array holds the dict's values at the entities' positions, and is
\* not-available everywhere else
ProjectionOf(array, id_val, dim) ==
    /\ Len(array) = NumEntities
    /\ \A e \in SeqRange(DictKeys(id_val)) \cap SeqRange(DictKeys(Locate)) :
          array[DictGet(Locate, e) + 1] = Canonical(DictGet(id_val, e), dim)
    /\ \A p \in 1..Len(array) :
          p \notin Positions(id_val) => array[p] = NotAvailable(dim)

\* C14: the array of a single-step mesh-kind record has one entry per point
\* (node data) or per retained cell (element data); the entry at locate[id] is
\* the record's value for every identifier the mesh knows, every other entry
\* is not-available, and an identifier unknown to the mesh changes nothing
\* and raises nothing.
C14_SingleStepProjection ==
    (call.op = "export_result" /\ ~call.only_export_rawdata /\ call.return_array
        /\ ~(ret.exc = "" /\ ret.code = -1)
        /\ fxml.parses /\ fxml.type \in {NDDT, ELDT} /\ self_mesh # NoMesh
        /\ Decoded.status = "ok" /\ Decoded.time_is_none) =>
        /\ SingleProjected
        /\ ProjectionOf(ret.array, Decoded.val, fxml.dim)
        /\ outfile =>
              /\ FieldsOf(self_mesh) # <<>>
              /\ DictHas(FieldsOf(self_mesh), AttrName("F", NoSuffix))
              /\ DictGet(FieldsOf(self_mesh), AttrName("F", NoSuffix)) = ret.array

\* a record with a value for an entity of the mesh (a number) and a value
\* for an entity that the mesh does not have
C14_Witness ==
    /\ SingleProjected
    /\ \E e \in SeqRange(DictKeys(Decoded.val)) : ~DictHas(Locate, e)
    /\ \E p \in Positions(Decoded.val) :
          ret.array[p] # NotAvailable(fxml.dim)
    /\ \E p \in 1..Len(ret.array) : p \notin Positions(Decoded.val)

----------------------------------------------------------------------------
(* Claims about the groups of the time series (specification SpecXdmf) *)

FunctionNames == {func_all[i].func : i \in 1..Len(func_all)}

AttributesNamed(grid, f) ==
    {a \in 1..Len(grid.Attributes) : grid.Attributes[a].Name = f}

\* C15: every group has one copy of the geometry, one of the topology and
\* exactly one attribute per function name, named by the bare function name;
\* the attribute of a function without time suffix is the same in every group.
C15_OneAttributePerFunction ==
    xdmf_pc = "written" =>
        /\ \A k \in 1..Len(xdmf_out) :
              /\ xdmf_out[k].Geometry = 1 /\ xdmf_out[k].Topology = 1
              /\ Len(xdmf_out[k].Attributes) = Cardinality(FunctionNames)
              /\ \A f \in FunctionNames :
                    Cardinality(AttributesNamed(xdmf_out[k], f)) = 1
        /\ \A f \in FunctionNames :
              TextsOf(f) = {} =>
                  \A k \in 1..Len(xdmf_out) :
                     \A a \in AttributesNamed(xdmf_out[k], f) :
                        /\ func_all[xdmf_out[k].Attributes[a].ind + 1]
                               = AttrName(f, NoSuffix)
                        /\ \A b \in AttributesNamed(xdmf_out[1], f) :
                              xdmf_out[k].Attributes[a] = xdmf_out[1].Attributes[b]

\* two groups or more, of a file with a function without time suffix and a
\* function with time suffixes
C15_Witness ==
    /\ xdmf_pc = "written"
    /\ Len(xdmf_out) >= 2
    /\ \E f, g \in FunctionNames : TextsOf(f) = {} /\ Cardinality(TextsOf(g)) >= 2

\* the name of the field of step i of the record decoded last
StepName(i) == name_step("F", Decoded.time)[i]

\* the steps whose field is not written again under the same name later on
LastOfItsName(i) ==
    \A j \in (i + 1)..Len(Decoded.time) : StepName(j) # StepName(i)

StepField(i) == DictGet(FieldsOf(self_mesh), StepName(i))

\* [11, 22, 33, 12, 13, 23] of the file as [11, 22, 33, 12, 23, 13]
SwapLastTwo(v) == <<v[1], v[2], v[3], v[4], v[6], v[5]>>

StoredAs(v) == IF fxml.dim = 6 THEN SwapLastTwo(v) ELSE v

\* every entity of the mesh that has a value in the dict holds it in the array
\* in the stored order of components
HoldsStored(array, id_val) ==
    \A e \in SeqRange(DictKeys(id_val)) \cap SeqRange(DictKeys(Locate)) :
        array[DictGet(Locate, e) + 1] = StoredAs(DictGet(id_val, e))

\* C16: a record of 6 components is stored with its last two components
\* swapped once, in the single-step projection and in every step of the
\* time-series projection; a record of another size is stored as the file
\* gives it.
C16_TensorOrder ==
    /\ SingleProjected => HoldsStored(ret.array, Decoded.val)
    /\ TimeSeriesProjected =>
          \A i \in 1..Len(Decoded.time) :
              LastOfItsName(i) => HoldsStored(StepField(i), Decoded.val[i])

\* a 6-component record was projected on the mesh, step by step, and one step
\* has a value for an entity of the mesh
C16_Witness ==
    /\ TimeSeriesProjected
    /\ fxml.dim = 6
    /\ \E i \in 1..Len(Decoded.time) :
          /\ LastOfItsName(i)
          /\ \E e \in SeqRange(DictKeys(Decoded.val[i])) :
                /\ DictHas(Locate, e)
                /\ StepField(i)[DictGet(Locate, e) + 1]
                       = <<Num(3), Num(4), Num(5), Num(6), Num(8), Num(7)>>

----------------------------------------------------------------------------
(* Claims about the values export_result returns (specification SpecExport) *)

\* C17: of a call of export_result that returns, the integer is -1 exactly
\* when the XML file was absent and studyrlt gave none, -2 exactly when
\* read_moldflow_xml reported failure, and 1 exactly when the XML file was
\* obtained and, unless only_export_rawdata, decoded; with the XML file
\* already there -1 is not returned.
C17_ReturnCodes ==
    [][(call'.op = "export_result" /\ ret'.exc = "") =>
          LET obtained == "F.xml" \in rawdata'
              raw == call'.only_export_rawdata
              status == read_moldflow_xml(fxml, call'.only_last_step).status
          IN /\ ret'.code \in {1, -1, -2}
             /\ (ret'.code = -1) <=> ~obtained
             /\ ("F.xml" \in rawdata) => ret'.code # -1
             /\ (ret'.code = -2) <=> (obtained /\ ~raw /\ status = "fail")
             /\ (ret'.code = 1) <=> (obtained /\ (raw \/ status = "ok"))]_vars

\* export_result found the XML file and returned -2 for a document that does
\* not parse
C17_Witness ==
    /\ call.op = "export_result"
    /\ ret.exc = "" /\ ret.code = -2
    /\ "F.xml" \in rawdata /\ ~fxml.parses

----------------------------------------------------------------------------
(* Claims about the steps of a time series (specification SpecExport) *)

\* the arrays of the loop of _process_time_series_result for the record
\* decoded last
StepArrays == _time_series_steps(self_mesh, Decoded, Len(Decoded.time))

\* C18: the field of step i holds, at every entity, the value of block i, or
\* not-available where block i has none, so nothing written for one step
\* shows in the field of another; and no two steps store the same array, nor
\* the array they were copied from.
C18_StepsDoNotAlias ==
    TimeSeriesProjected =>
        /\ \A i \in 1..Len(Decoded.time) :
              /\ ProjectionOf(StepArrays.objs[StepArrays.ids[i]],
                              Decoded.val[i], fxml.dim)
              /\ LastOfItsName(i) =>
                    ProjectionOf(StepField(i), Decoded.val[i], fxml.dim)
        /\ \A i, j \in 1..Len(Decoded.time) :
              /\ StepArrays.ids[i] # 1
              /\ i # j => StepArrays.ids[i] # StepArrays.ids[j]

\* two steps of different names: the first has a value for an entity for
\* which the second has none, the second for another entity
C18_Witness ==
    /\ TimeSeriesProjected
    /\ \E i, j \in 1..Len(Decoded.time) :
          /\ i < j /\ StepName(i) # StepName(j) /\ LastOfItsName(j)
          /\ \E p, q \in 1..NumEntities :
                /\ StepField(i)[p] # NotAvailable(fxml.dim)
                /\ StepField(j)[p] = NotAvailable(fxml.dim)
                /\ StepField(j)[q] # NotAvailable(fxml.dim)
                /\ StepField(i)[q] = NotAvailable(fxml.dim)

\* C19: a call of export_result with return_array returns a pair (code,
\* array), whatever the kind of the record and the outcome; on a mesh-kind
\* record with a time axis it does not fail on an unassigned array.
C19_ReturnArrayGivesPair ==
    (call.op = "export_result" /\ call.return_array) =>
        /\ ret.exc # "UnboundLocalError"
        /\ ret.exc = "" => ret.pair

----------------------------------------------------------------------------
(* Claims about the order of the exporter's calls (specification SpecExport) *)

\* C20: whatever the sequence of export_mesh and export_result calls, a call
\* of export_result made while the exporter has no processed mesh (none yet,
\* or one exported with only_export_rawdata) does not dereference the
\* missing mesh.
C20_NoProjectionWithoutMesh ==
    [][(call'.op = "export_result" /\ self_mesh = NoMesh) =>
          ret'.exc # "AttributeError"]_vars

----------------------------------------------------------------------------
(* Claims about the averaging operations (specification SpecAverage) *)

HasTetra == DictHas(mesh.cells, "tetra")

\* the average of the values that the argument gives for the points of a cell
MeanOfPoints(cell) ==
    LET col(c) == Column(avg_call.data, avg_call.ndim, c)
        total(c) == SumOver(col(c), {v + 1 : v \in SeqRange(cell)})
    IN IF avg_call.ndim = 1 THEN Num(total(1) \div Len(cell))
       ELSE [c \in 1..2 |-> Num(total(c) \div Len(cell))]

\* C21: on a mesh with tetra cells, average_point_to_cell returns one entry
\* per tetra cell, entry i being the average over the points of tetra cell i,
\* also when triangle cells were decoded with the tetra cells; and
\* average_cell_to_point returns one entry per point, for an argument of 1
\* dimension and of 2.
C21_AveragingShapes ==
    /\ (avg_call.op = "average_point_to_cell" /\ HasTetra) =>
          /\ avg_ret.exc = ""
          /\ Len(avg_ret.array) = ntetra(mesh)
          /\ \A i \in 1..ntetra(mesh) :
                avg_ret.array[i] = MeanOfPoints(DictGet(mesh.cells, "tetra")[i])
    /\ (avg_call.op = "average_cell_to_point" /\ HasTetra) =>
          /\ avg_ret.exc = ""
          /\ Len(avg_ret.array) = Len(mesh.points)

\* the part of it about average_point_to_cell alone
C21_PointToCell ==
    (avg_call.op = "average_point_to_cell" /\ HasTetra) =>
        /\ avg_ret.exc = ""
        /\ Len(avg_ret.array) = ntetra(mesh)

\* both parts, for a mesh of tetra cells only and arguments of 2 dimensions
C21_TetraOnlyTwoDimensions ==
    (avg_call.op # "" /\ avg_call.ndim = 2 /\ HasTetra /\ Len(mesh.cells) = 1) =>
        /\ avg_ret.exc = ""
        /\ avg_call.op = "average_point_to_cell" =>
              /\ Len(avg_ret.array) = ntetra(mesh)
              /\ \A i \in 1..ntetra(mesh) :
                    avg_ret.array[i] = MeanOfPoints(DictGet(mesh.cells, "tetra")[i])
        /\ avg_call.op = "average_cell_to_point" =>
              Len(avg_ret.array) = Len(mesh.points)

====
